---- MODULE Spec2Model ----
(***************************************************************************)
(* A model of MyOptimizers (superlearn_library/optimimzers.py): the        *)
(* gradient_descent and newtons_method loops, the backtracking line        *)
(* search, and the attributes (self.g, self.grad, self.hess, self.epsilon) *)
(* the three methods keep on the instance.                                 *)
(*                                                                         *)
(* Numbers are exact rationals <<numerator, denominator>>, denominator > 0 *)
(* and in lowest terms; <<0, 0>> is NaN, the value numpy gives for 0/0.    *)
(* Vectors are sequences of numbers (the (n,1) arrays of the code) and     *)
(* matrices are sequences of rows.  An objective is a polynomial, and the  *)
(* functions autograd derives from it are its exact gradient and Hessian.  *)
(***************************************************************************)
EXTENDS Integers, Sequences, FiniteSets, TLC

VARIABLES self, run, bt

vars == <<self, run, bt>>

(***************************************************************************)
(* Bounds of the model.                                                    *)
(***************************************************************************)
MaxIts == 3
MaxShrink == 4
MaxCoord == 2

(***************************************************************************)
(* Exact rational arithmetic, with NaN.                                    *)
(***************************************************************************)
Abs(i) == IF i < 0 THEN -i ELSE i

RECURSIVE GCD(_, _)
GCD(a, b) == IF b = 0 THEN a ELSE GCD(b, a % b)

NaN == <<0, 0>>
IsNaN(x) == x[2] = 0

Rat(num, den) ==
    IF den = 0 THEN NaN
    ELSE LET g == GCD(Abs(num), Abs(den))
             s == IF den < 0 THEN -1 ELSE 1
         IN  <<s * (num \div g), s * (den \div g)>>

R(i) == <<i, 1>>
Zero == R(0)

RNeg(x) == <<-x[1], x[2]>>

RAdd(x, y) ==
    IF IsNaN(x) \/ IsNaN(y) THEN NaN
    ELSE LET g == GCD(x[2], y[2])
             l == (x[2] \div g) * y[2]
         IN  Rat(x[1] * (l \div x[2]) + y[1] * (l \div y[2]), l)

RSub(x, y) == RAdd(x, RNeg(y))

RMul(x, y) ==
    IF IsNaN(x) \/ IsNaN(y) THEN NaN
    ELSE LET g1 == GCD(Abs(x[1]), y[2])
             g2 == GCD(Abs(y[1]), x[2])
         IN  <<(x[1] \div g1) * (y[1] \div g2), (x[2] \div g2) * (y[2] \div g1)>>

\* x / y as numpy divides: 0/0 and anything involving NaN give NaN.  No
\* nonzero number is ever divided by zero in the code modelled here.
RDiv(x, y) ==
    IF IsNaN(x) \/ IsNaN(y) \/ y[1] = 0 THEN NaN
    ELSE LET s == IF y[1] < 0 THEN -1 ELSE 1
         IN  RMul(x, <<s * y[2], s * y[1]>>)

\* x > y as Python compares floats: false when either side is NaN.
RGreater(x, y) == ~IsNaN(x) /\ ~IsNaN(y) /\ RSub(x, y)[1] > 0

RECURSIVE ISqrtIn(_, _, _)
ISqrtIn(n, lo, hi) ==
    IF lo >= hi THEN lo
    ELSE LET mid == (lo + hi + 1) \div 2
         IN  IF mid * mid <= n THEN ISqrtIn(n, mid, hi) ELSE ISqrtIn(n, lo, mid - 1)

ISqrt(n) == ISqrtIn(n, 0, IF n < 46340 THEN n ELSE 46340)

IsSquare(x) == ~IsNaN(x) /\ x[1] >= 0 /\ ISqrt(x[1]) * ISqrt(x[1]) = x[1]
                  /\ ISqrt(x[2]) * ISqrt(x[2]) = x[2]

\* The square root of a number that is a square of a rational (every norm
\* the model takes is one: see NormsExact).
RSqrt(x) == IF IsNaN(x) THEN NaN ELSE <<ISqrt(x[1]), ISqrt(x[2])>>

(***************************************************************************)
(* Vectors and matrices.                                                   *)
(***************************************************************************)
VSub(u, v) == [i \in 1..Len(u) |-> RSub(u[i], v[i])]
VScale(c, v) == [i \in 1..Len(v) |-> RMul(c, v[i])]
VDivide(v, c) == [i \in 1..Len(v) |-> RDiv(v[i], c)]

RECURSIVE SumTo(_, _)
SumTo(f, n) == IF n = 0 THEN Zero ELSE RAdd(SumTo(f, n - 1), f[n])

SumSq(v) == SumTo([i \in 1..Len(v) |-> RMul(v[i], v[i])], Len(v))

\* np.linalg.norm of an (n,1) array
Norm(v) == RSqrt(SumSq(v))

\* np.dot of an n-by-n matrix and an (n,1) array
MatVec(m, v) == [i \in 1..Len(m) |-> SumTo([j \in 1..Len(v) |-> RMul(m[i][j], v[j])], Len(v))]

\* hess_val + epsilon * np.eye(n)
AddRidge(m, eps) ==
    [i \in 1..Len(m) |-> [j \in 1..Len(m) |-> IF i = j THEN RAdd(m[i][j], eps) ELSE m[i][j]]]

\* np.linalg.pinv of a 1-by-1 or 2-by-2 matrix: the inverse when there is
\* one, the zero matrix for the zero matrix, and A^T / ||A||_F^2 for a
\* matrix of rank one.
Pinv(m) ==
    IF Len(m) = 1
    THEN <<<<IF m[1][1][1] = 0 THEN Zero ELSE RDiv(R(1), m[1][1])>>>>
    ELSE LET det == RSub(RMul(m[1][1], m[2][2]), RMul(m[1][2], m[2][1]))
             fro == RAdd(RAdd(RMul(m[1][1], m[1][1]), RMul(m[1][2], m[1][2])),
                         RAdd(RMul(m[2][1], m[2][1]), RMul(m[2][2], m[2][2])))
         IN  IF det[1] # 0
             THEN <<<<RDiv(m[2][2], det), RDiv(RNeg(m[1][2]), det)>>,
                    <<RDiv(RNeg(m[2][1]), det), RDiv(m[1][1], det)>>>>
             ELSE IF fro[1] = 0
             THEN <<<<Zero, Zero>>, <<Zero, Zero>>>>
             ELSE <<<<RDiv(m[1][1], fro), RDiv(m[2][1], fro)>>,
                    <<RDiv(m[1][2], fro), RDiv(m[2][2], fro)>>>>

(***************************************************************************)
(* Objectives: g(w) = d*w1^3 + sum_i (a[i]*w_i^2 + b[i]*w_i) + c*w1*w2,    *)
(* with integer coefficients (c only when n = 2), and what autograd's      *)
(* compute_grad and compute_hess return for them.                          *)
(***************************************************************************)
Obj(d, a, b, c) == [d |-> d, a |-> a, b |-> b, c |-> c]

Dim(g) == Len(g.a)

Cross(g, w) == IF Dim(g) = 2 /\ g.c # 0 THEN RMul(R(g.c), RMul(w[1], w[2])) ELSE Zero

Cubic(g, w) == IF g.d # 0 THEN RMul(R(g.d), RMul(w[1], RMul(w[1], w[1]))) ELSE Zero

G(g, w) ==
    RAdd(RAdd(Cubic(g, w), Cross(g, w)),
         SumTo([i \in 1..Dim(g) |->
                  RAdd(RMul(R(g.a[i]), RMul(w[i], w[i])), RMul(R(g.b[i]), w[i]))], Dim(g)))

Grad(g, w) ==
    [i \in 1..Dim(g) |->
        RAdd(RAdd(RMul(R(2 * g.a[i]), w[i]), R(g.b[i])),
             RAdd(IF i = 1 THEN RMul(R(3 * g.d), RMul(w[1], w[1])) ELSE Zero,
                  IF Dim(g) = 2 THEN RMul(R(g.c), w[3 - i]) ELSE Zero))]

Hess(g, w) ==
    [i \in 1..Dim(g) |-> [j \in 1..Dim(g) |->
        IF i = j
        THEN RAdd(R(2 * g.a[i]), IF i = 1 THEN RMul(R(6 * g.d), w[1]) ELSE Zero)
        ELSE R(g.c)]]

(***************************************************************************)
(* The inputs calls are drawn from.  An initial point is a scalar (a       *)
(* float) or a list of numbers; every dimension-2 point has a rational     *)
(* Euclidean norm.                                                         *)
(***************************************************************************)
Coords == (-MaxCoord)..MaxCoord

Scalar(i) == [kind |-> "scalar", val |-> R(i)]
List(s) == [kind |-> "list", val |-> s]

InitialPoints(n) ==
    IF n = 1
    THEN {Scalar(i) : i \in Coords} \cup {List(<<i>>) : i \in Coords}
    ELSE {List(<<i, 0>>) : i \in Coords} \cup {List(<<0, i>>) : i \in Coords}
            \cup {List(<<3, 4>>)}

\* w^2, -w^2, w, the constant 0, w1^2 + w2^2, and w1^2 (flat along w2)
ObjectivesGD ==
    {Obj(0, <<1>>, <<0>>, 0), Obj(0, <<-1>>, <<0>>, 0), Obj(0, <<0>>, <<1>>, 0),
     Obj(0, <<0>>, <<0>>, 0), Obj(0, <<1, 1>>, <<0, 0>>, 0), Obj(0, <<1, 0>>, <<0, 0>>, 0)}

\* and w1*w2 and w1^2 - w2^2 (saddles) and (w1 + w2)^2 (a Hessian of rank one)
ObjectivesNM ==
    ObjectivesGD \cup {Obj(0, <<0, 0>>, <<0, 0>>, 1), Obj(0, <<1, -1>>, <<0, 0>>, 0),
                       Obj(0, <<1, 1>>, <<0, 0>>, 2)}

\* w^3 and w^3 + w, which Newton's method is run on from -1, 0 and 1
\* without damping: the iterates keep small denominators
Cubics == {Obj(1, <<0>>, <<0>>, 0), Obj(1, <<0>>, <<1>>, 0)}
CubicPoints == {Scalar(i) : i \in {-1, 0, 1}}

Alphas == {<<1, 2>>, R(1)}
Epsilons == {R(0), R(1), R(2)}
MaxItsValues == (-1)..MaxIts

\* The keyword arguments of a call: max_its and the step length (or the
\* damping) are always passed, version and steplength_rule may be left out.
Optional(key, values) == {<<>>} \cup {[k \in {key} |-> x] : x \in values}

KwargsGD ==
    {[max_its |-> m, alpha |-> a] @@ v @@ s :
        m \in MaxItsValues, a \in Alphas,
        v \in Optional("version", {"unnormalized", "normalized"}),
        s \in Optional("steplength_rule", {"none", "backtracking"})}

KwargsNM == {[max_its |-> m, epsilon |-> e] : m \in MaxItsValues, e \in Epsilons}

KwargsCubic == {[max_its |-> m, epsilon |-> Zero] : m \in MaxItsValues}

ArgsGD ==
    {[g |-> g, w |-> w, kwargs |-> kw] :
        g \in ObjectivesGD, w \in InitialPoints(1) \cup InitialPoints(2), kw \in KwargsGD}

ArgsNM ==
    {[g |-> g, w |-> w, kwargs |-> kw] :
        g \in ObjectivesNM, w \in InitialPoints(1) \cup InitialPoints(2), kw \in KwargsNM}
    \cup {[g |-> g, w |-> w, kwargs |-> kw] :
            g \in Cubics, w \in CubicPoints, kw \in KwargsCubic}

\* kwargs[key] if key in kwargs, else the default
KwArg(kwargs, key, default) == IF key \in DOMAIN kwargs THEN kwargs[key] ELSE default

DefaultMaxItsGD == 100
DefaultMaxItsNM == 20
DefaultAlpha == <<1, 10000>>
DefaultEpsilon == <<1, 100000>>

(***************************************************************************)
(* "make sure initial w properly formatted": np.size(w), then np.asarray   *)
(* (of the floats of a longer list), then w.shape = (np.size(w), 1).       *)
(***************************************************************************)
Size(w) == IF w.kind = "scalar" THEN 1 ELSE Len(w.val)

Float(s) == R(s)

\* faulty variant: only the first entry of the initial point is kept
CoerceFirst(w) == <<IF w.kind = "scalar" THEN w.val ELSE Float(w.val[1])>>

Coerce(w) ==
    LET arr == IF Size(w) = 1
               THEN IF w.kind = "scalar" THEN <<w.val>> ELSE <<Float(w.val[1])>>
               ELSE [i \in 1..Len(w.val) |-> Float(w.val[i])]
    IN  [i \in 1..Size(w) |-> arr[i]]

(***************************************************************************)
(* The state: self, the attributes set so far on the MyOptimizers instance *)
(* (g, grad, hess and epsilon; grad and hess hold the objective they are   *)
(* the derivatives of), the frame of each optimizer call (its locals and   *)
(* its place in the code) and the frame of the backtracking call.          *)
(***************************************************************************)
RunIds == {1, 2}

IdleRun ==
    [pc |-> "idle", method |-> "none", args |-> <<>>, w |-> <<>>, w_hist |-> <<>>,
     max_its |-> 0, version |-> "none", alpha |-> Zero, steplength_rule |-> "none",
     k |-> 0, geval_old |-> Zero, ret |-> <<>>]

IdleBt ==
    [pc |-> "idle", w |-> <<>>, grad_eval |-> <<>>, alpha |-> Zero, func_eval |-> Zero,
     grad_norm |-> Zero, shrinks |-> 0, ret |-> Zero]

Init ==
    /\ self = <<>>
    /\ run = [r \in RunIds |-> IdleRun]
    /\ bt = IdleBt

Active(r) == run[r].pc \notin {"idle", "returned", "released"}

\* The caller lets go of the history a call returned: nothing of the call
\* is left but the attributes it set on the instance.
Release(r) ==
    /\ run[r].pc = "returned"
    /\ run' = [run EXCEPT ![r] = [IdleRun EXCEPT !.pc = "released"]]
    /\ UNCHANGED <<self, bt>>

BtActive == bt.pc = "loop"

(***************************************************************************)
(* gradient_descent                                                        *)
(***************************************************************************)
\* lines 18-46: the attributes, the initial point, the options, w_hist
gradient_descent(r, g, w, kwargs) ==
    /\ ~Active(r)
    /\ self' = [g |-> g, grad |-> g] @@ self
    /\ run' = [run EXCEPT ![r] =
                 [IdleRun EXCEPT
                    !.pc = "gd_loop", !.method = "gradient_descent",
                    !.args = [g |-> g, w |-> w, kwargs |-> kwargs],
                    !.w = Coerce(w),
                    !.max_its = KwArg(kwargs, "max_its", DefaultMaxItsGD),
                    !.version = KwArg(kwargs, "version", "unnormalized"),
                    !.alpha = KwArg(kwargs, "alpha", DefaultAlpha),
                    !.steplength_rule = KwArg(kwargs, "steplength_rule", "none"),
                    !.w_hist = <<Coerce(w)>>]]
    /\ UNCHANGED bt

\* faulty variant: range(max_its + 1)
InRangeInclusive(k, max_its) == k <= max_its

\* faulty variant: the body runs once before max_its is looked at
InRangeDoWhile(k, max_its) == k = 0 \/ k < max_its

\* for k in range(max_its): whether the loop has another iteration
InRange(k, max_its) == k < max_its

\* np.sign(2*np.random.rand(1) - 1): rand draws from [0, 1), and 0.5 is one
\* of the doubles it can return
Signs == {-1, 0, 1}

Perturbation == <<1, 1000000>>

\* faulty variant: the random sign is applied to every norm, zero or not
DirectionRandomSign(version, grad_eval, sgn) ==
    IF version = "normalized"
    THEN LET grad_norm == Norm(grad_eval)
         IN  VDivide(grad_eval,
                     IF grad_norm = Zero
                     THEN RAdd(grad_norm, RMul(<<1, 1000000>>, R(sgn)))
                     ELSE RMul(grad_norm, R(IF sgn = 0 THEN 1 ELSE sgn)))
    ELSE grad_eval

\* lines 56-60: grad_eval for the step, normalized or not
ZeroNormFix(grad_norm, sgn) == RAdd(grad_norm, RMul(Perturbation, R(sgn)))

Direction(version, grad_eval, sgn) ==
    IF version = "normalized"
    THEN LET grad_norm == Norm(grad_eval)
         IN  VDivide(grad_eval,
                     IF grad_norm = Zero THEN ZeroNormFix(grad_norm, sgn) ELSE grad_norm)
    ELSE grad_eval

\* faulty variant: a step up the gradient
DescentStepAscent(w, alpha, grad_eval) == [i \in 1..Len(w) |-> RAdd(w[i], RMul(alpha, grad_eval[i]))]

\* line 75
DescentStep(w, alpha, grad_eval) == VSub(w, VScale(alpha, grad_eval))

\* lines 50-78: one iteration of the loop
GDStep(r, sgn) ==
    /\ run[r].pc = "gd_loop"
    /\ InRange(run[r].k, run[r].max_its)
    /\ LET f == run[r]
           grad_eval == Direction(f.version, Grad(self.grad, f.w), sgn)
           w == DescentStep(f.w, f.alpha, grad_eval)
       IN  run' = [run EXCEPT ![r].w = w, ![r].w_hist = Append(f.w_hist, w),
                              ![r].k = f.k + 1]
    /\ UNCHANGED <<self, bt>>

\* lines 80-84: the loop is over
GDReturn(r) ==
    /\ run[r].pc = "gd_loop"
    /\ ~InRange(run[r].k, run[r].max_its)
    /\ run' = [run EXCEPT ![r].pc = "returned", ![r].ret = run[r].w_hist]
    /\ UNCHANGED <<self, bt>>

(***************************************************************************)
(* newtons_method                                                          *)
(***************************************************************************)
\* lines 102-125
newtons_method(r, g, w, kwargs) ==
    /\ ~Active(r)
    /\ self' = [g |-> g, grad |-> g, hess |-> g,
                epsilon |-> KwArg(kwargs, "epsilon", DefaultEpsilon)]
    /\ run' = [run EXCEPT ![r] =
                 [IdleRun EXCEPT
                    !.pc = "nm_start", !.method = "newtons_method",
                    !.args = [g |-> g, w |-> w, kwargs |-> kwargs],
                    !.w = Coerce(w),
                    !.max_its = KwArg(kwargs, "max_its", DefaultMaxItsNM),
                    !.w_hist = <<Coerce(w)>>]]
    /\ UNCHANGED bt

\* line 129: geval_old = self.g(w)
NMStart(r) ==
    /\ run[r].pc = "nm_start"
    /\ run' = [run EXCEPT ![r].pc = "nm_loop", ![r].geval_old = G(self.g, run[r].w)]
    /\ UNCHANGED <<self, bt>>

\* lines 132-137
NewtonStep(w, grad_val, hess_val, epsilon) ==
    VSub(w, MatVec(Pinv(AddRidge(hess_val, epsilon)), grad_val))

\* faulty variant: geval_new >= geval_old
DivergedOrEqual(geval_new, geval_old) ==
    ~IsNaN(geval_new) /\ ~IsNaN(geval_old) /\ RSub(geval_new, geval_old)[1] >= 0

\* line 141: the candidate is rejected and the run ends
Diverged(geval_new, geval_old) == RGreater(geval_new, geval_old)

\* lines 130-150: one iteration of the loop
NMStep(r) ==
    /\ run[r].pc = "nm_loop"
    /\ InRange(run[r].k, run[r].max_its)
    /\ LET f == run[r]
           w == NewtonStep(f.w, Grad(self.grad, f.w), Hess(self.hess, f.w), self.epsilon)
           geval_new == G(self.g, w)
       IN  IF Diverged(geval_new, f.geval_old)
           THEN run' = [run EXCEPT ![r].w = w, ![r].pc = "returned", ![r].ret = f.w_hist]
           ELSE run' = [run EXCEPT ![r].w = w, ![r].geval_old = geval_new,
                                   ![r].w_hist = Append(f.w_hist, w), ![r].k = f.k + 1]
    /\ UNCHANGED <<self, bt>>

\* lines 152-156: the loop is over
NMReturn(r) ==
    /\ run[r].pc = "nm_loop"
    /\ ~InRange(run[r].k, run[r].max_its)
    /\ run' = [run EXCEPT ![r].pc = "returned", ![r].ret = run[r].w_hist]
    /\ UNCHANGED <<self, bt>>

(***************************************************************************)
(* backtracking                                                            *)
(***************************************************************************)
\* The arrays backtracking is called on, of the dimension of the objective
Arrays(g) == {Coerce(p) : p \in InitialPoints(Dim(g))}

\* t = 0.8
ShrinkFactor == <<4, 5>>

\* faulty variant: the decrease asked for is added, not subtracted
WhileCondLax(g, w, alpha, grad_eval, func_eval, grad_norm) ==
    RGreater(G(g, VSub(w, VScale(alpha, grad_eval))),
             RAdd(func_eval, RMul(RMul(alpha, <<1, 2>>), grad_norm)))

\* line 97: the test of the while loop
WhileCond(g, w, alpha, grad_eval, func_eval, grad_norm) ==
    RGreater(G(g, VSub(w, VScale(alpha, grad_eval))),
             RSub(func_eval, RMul(RMul(alpha, <<1, 2>>), grad_norm)))

\* lines 87-94; self.g must have been set by an optimizer call
backtracking(w, grad_eval) ==
    /\ "g" \in DOMAIN self
    /\ ~BtActive
    /\ bt' = [IdleBt EXCEPT !.pc = "loop", !.w = w, !.grad_eval = grad_eval,
                            !.alpha = R(1),
                            !.func_eval = G(self.g, w),
                            !.grad_norm = RMul(Norm(grad_eval), Norm(grad_eval))]
    /\ UNCHANGED <<self, run>>

\* faulty variant: the loop gives up after two shrinks and returns alpha
BtShrinkCapped ==
    /\ bt.pc = "loop"
    /\ G(self.g, VSub(bt.w, VScale(bt.alpha, bt.grad_eval)))
          # RSub(bt.func_eval, RMul(RMul(bt.alpha, <<1, 2>>), bt.grad_norm))
    /\ RSub(G(self.g, VSub(bt.w, VScale(bt.alpha, bt.grad_eval))),
            RSub(bt.func_eval, RMul(RMul(bt.alpha, <<1, 2>>), bt.grad_norm)))[1] > 0
    /\ bt' = IF bt.shrinks < 2
             THEN [bt EXCEPT !.alpha = RMul(<<4, 5>>, bt.alpha), !.shrinks = bt.shrinks + 1]
             ELSE [bt EXCEPT !.pc = "returned", !.ret = bt.alpha]
    /\ UNCHANGED <<self, run>>

\* lines 97-98: the test holds and alpha shrinks
BtShrink ==
    /\ bt.pc = "loop"
    /\ bt.shrinks < MaxShrink
    /\ WhileCond(self.g, bt.w, bt.alpha, bt.grad_eval, bt.func_eval, bt.grad_norm)
    /\ bt' = [bt EXCEPT !.alpha = RMul(ShrinkFactor, bt.alpha), !.shrinks = bt.shrinks + 1]
    /\ UNCHANGED <<self, run>>

\* lines 97, 99: the test fails and alpha is returned
BtReturn ==
    /\ bt.pc = "loop"
    /\ ~WhileCond(self.g, bt.w, bt.alpha, bt.grad_eval, bt.func_eval, bt.grad_norm)
    /\ bt' = [bt EXCEPT !.pc = "returned", !.ret = bt.alpha]
    /\ UNCHANGED <<self, run>>

(***************************************************************************)
(* Spec: the calls of a single-threaded caller on one instance, one call   *)
(* at a time.                                                              *)
(***************************************************************************)
Quiet == ~BtActive /\ \A r \in RunIds : ~Active(r)

Fresh(r) == run[r].pc = "idle"

\* A valid call: the initial point has the dimension of the objective.
Valid(a) == Size(a.w) = Dim(a.g)

CallGD ==
    /\ Quiet /\ Fresh(1)
    /\ \E a \in ArgsGD : Valid(a) /\ gradient_descent(1, a.g, a.w, a.kwargs)

CallNM ==
    /\ Quiet /\ Fresh(1)
    /\ \E a \in ArgsNM : Valid(a) /\ newtons_method(1, a.g, a.w, a.kwargs)

\* backtracking is called while self.g is one of the quadratic objectives
CallBt ==
    /\ Quiet
    /\ run[1].pc = "released"
    /\ "g" \in DOMAIN self
    /\ self.g \in ObjectivesNM
    /\ \E w \in Arrays(self.g) : \E grad_eval \in Arrays(self.g) :
          backtracking(w, grad_eval)

StepGD == \E sgn \in Signs : GDStep(1, sgn)

Next ==
    \/ CallGD
    \/ StepGD
    \/ GDReturn(1)
    \/ CallNM
    \/ NMStart(1)
    \/ NMStep(1)
    \/ NMReturn(1)
    \/ Release(1)
    \/ CallBt
    \/ BtShrink
    \/ BtReturn

Spec == Init /\ [][Next]_vars

\* Every norm taken is the norm of a vector whose norm is rational.
NormsExact ==
    /\ \A r \in RunIds :
          run[r].pc = "gd_loop" /\ run[r].version = "normalized"
             => LET s == SumSq(Grad(self.grad, run[r].w)) IN IsNaN(s) \/ IsSquare(s)
    /\ bt.pc # "idle" => IsSquare(SumSq(bt.grad_eval))

(***************************************************************************)
(* What the properties below are stated with: the frames of the calls, a   *)
(* caller's initial point laid out as a column, and the conditions of the  *)
(* specification written out on their own.                                 *)
(***************************************************************************)
Started(r) == run[r].pc \in {"gd_loop", "nm_start", "nm_loop", "returned"}

IsGD(r) == Started(r) /\ run[r].method = "gradient_descent"
IsNM(r) == Started(r) /\ run[r].method = "newtons_method"

Last(h) == h[Len(h)]

ColumnOf(w) ==
    IF w.kind = "scalar" THEN <<w.val>> ELSE [i \in 1..Len(w.val) |-> <<w.val[i], 1>>]

ElementCount(w) == IF w.kind = "scalar" THEN 1 ELSE Len(w.val)

GivenMaxIts(r) == run[r].args.kwargs.max_its

\* C1: in gradient_descent and newtons_method alike, at every point of the
\* run and in what is returned, the history is non-empty, its first element
\* is the caller's initial point as a column of n numbers (n the element
\* count of the initial point), and every element has n entries.
C1_HistoryShape ==
    \A r \in RunIds :
        Started(r) =>
            LET h == IF run[r].pc = "returned" THEN run[r].ret ELSE run[r].w_hist
            IN  /\ Len(h) >= 1
                /\ h[1] = ColumnOf(run[r].args.w)
                /\ \A i \in 1..Len(h) : Len(h[i]) = ElementCount(run[r].args.w)

\* Newton's method left early, after at least one accepted step, from an
\* initial point given as a list of two numbers.
C1_Witness ==
    \E r \in RunIds :
        /\ IsNM(r) /\ run[r].pc = "returned"
        /\ run[r].args.w.kind = "list" /\ Len(run[r].args.w.val) = 2
        /\ Len(run[r].ret) >= 1
        /\ Len(run[r].ret) < GivenMaxIts(r) + 1

\* C2: gradient_descent runs its whole budget: while it loops the history
\* has one element more than the steps taken, never more steps than max_its,
\* and for every max_its >= 0 what it returns has exactly max_its + 1
\* elements, whatever the version and the step length.
C2_FullBudget ==
    \A r \in RunIds :
        IsGD(r) /\ GivenMaxIts(r) >= 0 =>
            /\ Len(run[r].w_hist) = run[r].k + 1
            /\ run[r].k <= GivenMaxIts(r)
            /\ run[r].pc = "returned" => Len(run[r].ret) = GivenMaxIts(r) + 1

\* A normalized run through a zero gradient returned after MaxIts steps.
C2_Witness ==
    \E r \in RunIds :
        /\ IsGD(r) /\ run[r].pc = "returned"
        /\ run[r].version = "normalized"
        /\ GivenMaxIts(r) = MaxIts
        /\ Len(run[r].ret) = MaxIts + 1
        /\ \E i \in 1..MaxIts : SumSq(Grad(run[r].args.g, run[r].ret[i])) = Zero

\* C3: in newtons_method (max_its >= 0) the stored previous objective value
\* is the objective at the last element of the history whenever the loop
\* compares against it; the returned history has at most max_its + 1
\* elements, and when it has fewer the objective at the discarded candidate
\* is strictly greater than the objective at the last returned element.
C3_NewtonLength ==
    \A r \in RunIds :
        IsNM(r) /\ GivenMaxIts(r) >= 0 =>
            /\ run[r].pc = "nm_loop" =>
                  /\ run[r].geval_old = G(run[r].args.g, Last(run[r].w_hist))
                  /\ Len(run[r].w_hist) = run[r].k + 1
            /\ run[r].pc = "returned" =>
                  /\ Len(run[r].ret) <= GivenMaxIts(r) + 1
                  /\ Len(run[r].ret) < GivenMaxIts(r) + 1 =>
                        RSub(G(run[r].args.g, run[r].w),
                             G(run[r].args.g, Last(run[r].ret)))[1] > 0

\* Newton's method left early after two accepted steps.
C3_Witness ==
    \E r \in RunIds :
        /\ IsNM(r) /\ run[r].pc = "returned"
        /\ Len(run[r].ret) = 3
        /\ GivenMaxIts(r) >= 3

IsNumber(x) == x[2] # 0

\* C4: every step of gradient_descent is history[k+1] = history[k] -
\* alpha * direction_k with alpha the step length the caller gave (whatever
\* steplength_rule says) and direction_k the gradient at history[k]
\* (unnormalized), or, when the norm of that gradient is a nonzero number,
\* the gradient over its norm, a vector of norm one (normalized).
C4_StepInvariant ==
    \A r \in RunIds :
        IsGD(r) =>
            \A i \in 1..(Len(run[r].w_hist) - 1) :
                LET a     == run[r].args
                    h     == run[r].w_hist
                    gr    == Grad(a.g, h[i])
                    n2    == SumSq(gr)
                    alpha == a.kwargs.alpha
                    step  == [j \in 1..Len(gr) |-> RDiv(RSub(h[i][j], h[i + 1][j]), alpha)]
                IN  IF "version" \in DOMAIN a.kwargs /\ a.kwargs.version = "normalized"
                    THEN IsNumber(n2) /\ n2 # Zero =>
                            /\ SumSq(step) = R(1)
                            /\ \A j \in 1..Len(gr) :
                                  RMul(step[j], RSqrt(n2)) = gr[j]
                    ELSE step = gr

\* A normalized run given steplength_rule = "backtracking" took two steps
\* along a gradient with two nonzero entries.
C4_Witness ==
    \E r \in RunIds :
        /\ IsGD(r) /\ Len(run[r].w_hist) >= 3
        /\ run[r].version = "normalized"
        /\ run[r].steplength_rule = "backtracking"
        /\ Dim(run[r].args.g) = 2
        /\ \A j \in 1..2 : Grad(run[r].args.g, run[r].w_hist[2])[j][1] # 0

RECURSIVE TrialAlpha(_)
TrialAlpha(k) == IF k = 0 THEN R(1) ELSE RMul(<<4, 5>>, TrialAlpha(k - 1))

\* objective(w - alpha*grad_eval) <= objective(w) - alpha*0.5*||grad_eval||^2
SufficientDecrease(g, w, alpha, grad_eval) ==
    RSub(G(g, [i \in 1..Len(w) |-> RSub(w[i], RMul(alpha, grad_eval[i]))]),
         RSub(G(g, w), RMul(RMul(alpha, <<1, 2>>), SumSq(grad_eval))))[1] <= 0

\* C5: what backtracking returns satisfies the sufficient-decrease condition
\* and is the first of 1, 0.8, 0.8^2, ... to do so: every earlier trial
\* value violates the condition.
C5_Backtracking ==
    bt.pc = "returned" =>
        /\ bt.ret = TrialAlpha(bt.shrinks)
        /\ SufficientDecrease(self.g, bt.w, bt.ret, bt.grad_eval)
        /\ \A j \in 0..(bt.shrinks - 1) :
              ~SufficientDecrease(self.g, bt.w, TrialAlpha(j), bt.grad_eval)

\* backtracking, called with the gradient of the objective at w, returned
\* after shrinking alpha at least twice.
C5_Witness ==
    /\ bt.pc = "returned"
    /\ bt.shrinks >= 2
    /\ bt.grad_eval = Grad(self.g, bt.w)
    /\ SumSq(bt.grad_eval) # Zero

\* C7 as claimed: a call of gradient_descent or newtons_method with
\* max_its <= 0 does not return a history (it ends in a raised error).
C7_NonPositiveRaises ==
    \A r \in RunIds : Started(r) /\ GivenMaxIts(r) <= 0 => run[r].pc # "returned"

\* C7 as amended: a call with max_its <= 0 raises nothing; it takes no step
\* and returns the history that holds the initial point alone.
C7_NonPositiveReturnsInitial ==
    \A r \in RunIds :
        Started(r) /\ GivenMaxIts(r) <= 0 =>
            /\ run[r].k = 0
            /\ run[r].w_hist = <<ColumnOf(run[r].args.w)>>
            /\ run[r].pc = "gd_loop" => ENABLED GDReturn(r)
            /\ run[r].pc = "nm_loop" => ENABLED NMReturn(r)
            /\ run[r].pc = "returned" => run[r].ret = <<ColumnOf(run[r].args.w)>>

\* newtons_method returned with max_its = -1.
C7_Witness ==
    \E r \in RunIds : IsNM(r) /\ run[r].pc = "returned" /\ GivenMaxIts(r) = -1

\* C8 as claimed: in normalized gradient descent a step from a point whose
\* gradient has norm zero divides by +1e-6 or -1e-6, so the iterate it
\* appends is the previous iterate, whatever the random sign.
C8_ZeroNormRecovered ==
    \A r \in RunIds :
        IsGD(r) /\ run[r].version = "normalized" =>
            \A i \in 1..(Len(run[r].w_hist) - 1) :
                SumSq(Grad(run[r].args.g, run[r].w_hist[i])) = Zero
                    => run[r].w_hist[i + 1] = run[r].w_hist[i]

\* C10: the loop of backtracking has no cap.  While it runs, alpha is
\* 0.8^shrinks and every earlier trial value violated the condition; it
\* leaves, returning alpha, exactly when alpha satisfies the condition, and
\* otherwise its only step is to shrink alpha once more.
C10_LoopInvariant ==
    bt.pc = "loop" =>
        /\ bt.alpha = TrialAlpha(bt.shrinks)
        /\ \A j \in 0..(bt.shrinks - 1) :
              ~SufficientDecrease(self.g, bt.w, TrialAlpha(j), bt.grad_eval)

C10_LoopStep ==
    (bt.pc = "loop" /\ bt' # bt) =>
        IF SufficientDecrease(self.g, bt.w, bt.alpha, bt.grad_eval)
        THEN bt' = [bt EXCEPT !.pc = "returned", !.ret = bt.alpha]
        ELSE bt' = [bt EXCEPT !.alpha = RMul(<<4, 5>>, bt.alpha), !.shrinks = bt.shrinks + 1]

C10_NoCap == [](C10_LoopInvariant) /\ [][C10_LoopStep]_vars

\* backtracking is still looping after MaxShrink shrinks, no trial value
\* so far satisfying the condition.
C10_Witness ==
    /\ bt.pc = "loop"
    /\ bt.shrinks = MaxShrink
    /\ \A j \in 0..MaxShrink :
          ~SufficientDecrease(self.g, bt.w, TrialAlpha(j), bt.grad_eval)

(***************************************************************************)
(* SpecTwoCalls: a call of either optimizer, and after it has returned the *)
(* same call once more (frame 1, then frame 2).                            *)
(***************************************************************************)
FirstGD ==
    /\ Fresh(1) /\ Fresh(2)
    /\ \E a \in ArgsGD : Valid(a) /\ gradient_descent(1, a.g, a.w, a.kwargs)

FirstNM ==
    /\ Fresh(1) /\ Fresh(2)
    /\ \E a \in ArgsNM : Valid(a) /\ newtons_method(1, a.g, a.w, a.kwargs)

AgainGD ==
    /\ run[1].pc = "returned" /\ Fresh(2)
    /\ run[1].method = "gradient_descent"
    /\ gradient_descent(2, run[1].args.g, run[1].args.w, run[1].args.kwargs)

AgainNM ==
    /\ run[1].pc = "returned" /\ Fresh(2)
    /\ run[1].method = "newtons_method"
    /\ newtons_method(2, run[1].args.g, run[1].args.w, run[1].args.kwargs)

StepGDOf(r) == \E sgn \in Signs : GDStep(r, sgn)

NextTwoCalls ==
    \/ FirstGD
    \/ FirstNM
    \/ AgainGD
    \/ AgainNM
    \/ \E r \in RunIds : StepGDOf(r)
    \/ \E r \in RunIds : GDReturn(r)
    \/ \E r \in RunIds : NMStart(r)
    \/ \E r \in RunIds : NMStep(r)
    \/ \E r \in RunIds : NMReturn(r)

SpecTwoCalls == Init /\ [][NextTwoCalls]_vars

Min(a, b) == IF a < b THEN a ELSE b

\* No gradient of norm zero among the first n points of the history of r
\* (of a normalized run: no other run reaches the random choice).
NoZeroGradient(r, n) ==
    \/ run[r].method = "newtons_method"
    \/ run[r].version # "normalized"
    \/ \A i \in 1..n : SumSq(Grad(run[r].args.g, run[r].w_hist[i])) # Zero

\* C9: two calls of the same optimizer with the same objective, initial
\* point and options build the same history, element for element, and
\* return the same history, as long as the version is unnormalized or every
\* gradient visited is nonzero.
C9_Deterministic ==
    (Started(1) /\ Started(2) /\ run[1].method = run[2].method /\ run[1].args = run[2].args)
        => /\ \A i \in 1..Min(Len(run[1].w_hist), Len(run[2].w_hist)) :
                NoZeroGradient(1, i - 1) => run[1].w_hist[i] = run[2].w_hist[i]
           /\ (run[1].pc = "returned" /\ run[2].pc = "returned"
                  /\ NoZeroGradient(1, Len(run[1].ret) - 1))
                 => run[1].ret = run[2].ret

\* The same normalized descent of MaxIts steps has returned twice, through
\* nonzero gradients only.
C9_Witness ==
    /\ run[1].pc = "returned" /\ run[2].pc = "returned"
    /\ run[1].method = "gradient_descent" /\ run[2].method = "gradient_descent"
    /\ run[1].args = run[2].args
    /\ run[1].version = "normalized"
    /\ Len(run[1].ret) = MaxIts + 1
    /\ \A i \in 1..MaxIts : SumSq(Grad(run[1].args.g, run[1].ret[i])) # Zero

(***************************************************************************)
(* SpecThreads: two calls on one instance from two threads, their steps    *)
(* interleaved.                                                            *)
(***************************************************************************)
ThreadObjectives == {Obj(0, <<1>>, <<0>>, 0), Obj(0, <<-1>>, <<0>>, 0), Obj(0, <<0>>, <<1>>, 0)}
ThreadPoints == {Scalar(1), Scalar(2)}

ThreadArgsGD ==
    {[g |-> g, w |-> w, kwargs |-> [max_its |-> m, alpha |-> <<1, 2>>] @@ v] :
        g \in ThreadObjectives, w \in ThreadPoints, m \in 1..2,
        v \in Optional("version", {"normalized"})}

ThreadArgsNM ==
    {[g |-> g, w |-> w, kwargs |-> [max_its |-> m, epsilon |-> e]] :
        g \in ThreadObjectives, w \in ThreadPoints, m \in 1..2, e \in {R(0), R(1)}}

ThreadCallGD(r) ==
    /\ Fresh(r)
    /\ \E a \in ThreadArgsGD : gradient_descent(r, a.g, a.w, a.kwargs)

ThreadCallNM(r) ==
    /\ Fresh(r)
    /\ \E a \in ThreadArgsNM : newtons_method(r, a.g, a.w, a.kwargs)

NextThreads ==
    \/ \E r \in RunIds : ThreadCallGD(r)
    \/ \E r \in RunIds : ThreadCallNM(r)
    \/ \E r \in RunIds : StepGDOf(r)
    \/ \E r \in RunIds : GDReturn(r)
    \/ \E r \in RunIds : NMStart(r)
    \/ \E r \in RunIds : NMStep(r)
    \/ \E r \in RunIds : NMReturn(r)

SpecThreads == Init /\ [][NextThreads]_vars

\* h is a history gradient_descent can return for the arguments a when it
\* runs alone.
AloneGD(a, h) ==
    LET version == IF "version" \in DOMAIN a.kwargs THEN a.kwargs.version ELSE "unnormalized"
    IN  /\ Len(h) = (IF a.kwargs.max_its > 0 THEN a.kwargs.max_its ELSE 0) + 1
        /\ h[1] = ColumnOf(a.w)
        /\ \A i \in 1..(Len(h) - 1) :
              \E sgn \in Signs :
                  h[i + 1] = DescentStep(h[i], a.kwargs.alpha,
                                         Direction(version, Grad(a.g, h[i]), sgn))

AloneCandidate(a, w) == NewtonStep(w, Grad(a.g, w), Hess(a.g, w), a.kwargs.epsilon)

\* h is the history newtons_method returns for the arguments a when it
\* runs alone.
AloneNM(a, h) ==
    /\ Len(h) >= 1
    /\ Len(h) <= (IF a.kwargs.max_its > 0 THEN a.kwargs.max_its ELSE 0) + 1
    /\ h[1] = ColumnOf(a.w)
    /\ \A i \in 1..(Len(h) - 1) :
          /\ h[i + 1] = AloneCandidate(a, h[i])
          /\ ~Diverged(G(a.g, h[i + 1]), G(a.g, h[i]))
    /\ Len(h) < a.kwargs.max_its + 1 =>
          Diverged(G(a.g, AloneCandidate(a, Last(h))), G(a.g, Last(h)))

\* C6 as claimed: whatever the interleaving of two runs on one instance,
\* each run returns a history it returns when run alone.
C6_RunsIndependent ==
    \A r \in RunIds :
        run[r].pc = "returned" =>
            IF run[r].method = "gradient_descent"
            THEN AloneGD(run[r].args, run[r].ret)
            ELSE AloneNM(run[r].args, run[r].ret)

====
